---- MODULE Spec2Model ----
(***************************************************************************)
(* Fuzzy C-Means (labs/w1/algorithms/fcm.py), the optimisation of K with   *)
(* its report (labs/w1/run.py) and the kIBL experiments with their         *)
(* statistical selection (labs/w3/run.py) of MAI-IML.                      *)
(*                                                                         *)
(* Numbers.  numpy float64 values are modelled as extended rationals       *)
(* <<n, d>>: d > 0 is the rational n/d in lowest terms, <<1, 0>> is +inf,  *)
(* <<-1, 0>> is -inf and <<0, 0>> is nan.  The operators below follow the  *)
(* IEEE rules numpy applies to float64 scalars and arrays (x/0 = inf,      *)
(* 0/0 = nan, nan propagates, every comparison with nan is false), without *)
(* rounding.                                                               *)
(*                                                                         *)
(* Four systems.  Spec and FairSpec are one FuzzyCMeans object from its    *)
(* construction to the end of fit.  OptSpec is one optimisation of K       *)
(* followed by generate_results; the scores of the candidates come from an *)
(* external metric and are drawn freely.  SweepSpec is one experiment of   *)
(* labs/w3/run.py (run_kIBL or run_reduction_kIBL) over its folds, in      *)
(* sequential mode or on a ThreadPool with its worker threads and its      *)
(* result-handler thread.  StatSpec is run_stat_select_kIBL on a results   *)
(* file, and eval_stat_test on a matrix of statistics; of the two tests    *)
(* only scipy.stats.wilcoxon is computed (exact signed-rank statistic and  *)
(* exact two-sided p-value), ttest_ind appears in eval_stat_test alone.    *)
(***************************************************************************)
EXTENDS Integers, Sequences, FiniteSets, TLC

\* ------------------------------------------------------------------ bounds
\* Coordinates of the data points are the integers 0..MaxCoord.
MaxCoord == 1
\* np.random.random draws are the values r/(MaxRaw+1), r in 0..MaxRaw: [0, 1).
MaxRaw == 2
\* max_it is 1 or MaxIt.
MaxIt == 2
\* The optimiser tries 1..MaxCandidates values of K.
MaxCandidates == 3
\* The external metric returns a score in 0..MaxScore.
MaxScore == 2
\* A dataset has 1..MaxClasses distinct classes.
MaxClasses == 4
\* An experiment runs over 1..MaxFolds folds.
MaxFolds == 3
\* A fold's accuracy is a/MaxAcc, a in 0..MaxAcc.
MaxAcc == 1
\* A fold's elapsed time is one of 1..MaxTime.
MaxTime == 3
\* A fold's training set has 1..MaxTrain instances.
MaxTrain == 1
\* multiprocessing.cpu_count() is one of 1..MaxCpu.
MaxCpu == 2
\* A results file holds 2..MaxModels models.
MaxModels == 2
\* Each model of a results file has 1..MaxSamples per-fold records.
MaxSamples == 2

\* The first candidate K of every sweep: range(2, ...).
KFirst == 2

\* ------------------------------------------------- extended rational numbers
\* Every operator evaluates its arguments once: Strict1 and Strict2 bind them
\* to values before the body (the V suffix) reads them.
Strict1(Op(_), a0) == CHOOSE r \in {Op(a) : a \in {a0}} : TRUE

Strict2(Op(_, _), a0, b0) == CHOOSE r \in {Op(a, b) : a \in {a0}, b \in {b0}} : TRUE

Abs(x) == IF x < 0 THEN -x ELSE x

Sign(x) == IF x < 0 THEN -1 ELSE IF x > 0 THEN 1 ELSE 0

RECURSIVE GCD(_, _)
GCDV(a, b) == IF b = 0 THEN a ELSE GCD(b, a % b)

GCD(a, b) == Strict2(GCDV, a, b)

NaN == <<0, 0>>
Inf == <<1, 0>>
Zero == <<0, 1>>
One == <<1, 1>>

\* n/d in lowest terms with a positive denominator; n/0 is inf, -inf or nan.
RatV(n, d) ==
    IF d = 0 THEN <<Sign(n), 0>>
    ELSE LET g == GCD(Abs(n), Abs(d))
         IN  <<Sign(d) * (n \div g), Abs(d) \div g>>

Rat(n, d) == Strict2(RatV, n, d)

IsNaN(a) == a = NaN
IsFinite(a) == a[2] # 0

NegV(a) == <<-a[1], a[2]>>

Neg(a) == Strict1(NegV, a)

AbsValV(a) == <<Abs(a[1]), a[2]>>

AbsVal(a) == Strict1(AbsValV, a)

\* a * b: inf * 0 = nan, nan * x = nan.
MulV(a, b) ==
    IF IsFinite(a) /\ IsFinite(b)
    THEN LET g1 == GCD(Abs(a[1]), b[2])
             g2 == GCD(Abs(b[1]), a[2])
         IN  <<(a[1] \div g1) * (b[1] \div g2), (a[2] \div g2) * (b[2] \div g1)>>
    ELSE <<Sign(a[1]) * Sign(b[1]), 0>>

Mul(a, b) == Strict2(MulV, a, b)

\* 1 / a: 1/0 = inf, 1/inf = 0, 1/nan = nan.
RecipV(a) ==
    IF a = NaN THEN NaN
    ELSE IF a[1] = 0 THEN Inf
    ELSE IF a[2] = 0 THEN Zero
    ELSE <<Sign(a[1]) * a[2], Abs(a[1])>>

Recip(a) == Strict1(RecipV, a)

\* a / b: 0/0 = nan, x/0 = +-inf, inf/inf = nan.
Div(a, b) == Mul(a, Recip(b))

\* a + b: inf + (-inf) = nan.
AddV(a, b) ==
    IF IsFinite(a) /\ IsFinite(b)
    THEN LET g == GCD(a[2], b[2])
         IN  Rat(a[1] * (b[2] \div g) + b[1] * (a[2] \div g), (a[2] \div g) * b[2])
    ELSE IF a = NaN \/ b = NaN THEN NaN
    ELSE IF IsFinite(a) THEN b
    ELSE IF IsFinite(b) THEN a
    ELSE IF a = b THEN a ELSE NaN

Add(a, b) == Strict2(AddV, a, b)

Sub(a, b) == Add(a, Neg(b))

\* a < b on float64: false as soon as one side is nan.
LessV(a, b) ==
    IF a = NaN \/ b = NaN THEN FALSE
    ELSE IF IsFinite(a) /\ IsFinite(b)
    THEN LET g == GCD(a[2], b[2])
         IN  a[1] * (b[2] \div g) < b[1] * (a[2] \div g)
    ELSE IF a = b THEN FALSE
    ELSE a = <<-1, 0>> \/ b = Inf

Less(a, b) == Strict2(LessV, a, b)

\* a <= b on float64: false as soon as one side is nan.
LeqV(a, b) == IF a = NaN \/ b = NaN THEN FALSE ELSE ~LessV(b, a)

Leq(a, b) == Strict2(LeqV, a, b)

\* numpy's sum of an array.
RECURSIVE SumSeq(_)
SumSeqV(s) == IF s = <<>> THEN Zero ELSE Add(Head(s), SumSeq(Tail(s)))

SumSeq(s) == Strict1(SumSeqV, s)

\* numpy's max of two values and of an array: nan as soon as one entry is nan.
MaxV(a, b) ==
    IF a = NaN \/ b = NaN THEN NaN
    ELSE IF LessV(a, b) THEN b ELSE a

Max(a, b) == Strict2(MaxV, a, b)

RECURSIVE MaxSeq(_)
MaxSeqV(s) == IF Len(s) = 1 THEN s[1] ELSE Max(s[1], MaxSeq(Tail(s)))

MaxSeq(s) == Strict1(MaxSeqV, s)

\* a ** e for the integer exponent e >= 0 (nan ** 0 = 1 on float64).
RECURSIVE Pow(_, _)
PowV(a, e) == IF e = 0 THEN One ELSE Mul(a, Pow(a, e - 1))

Pow(a, e) == Strict2(PowV, a, e)

\* ------------------------------------------------------------ the program
VARIABLES
    X,                  \* the dataset: a sequence of points, each a sequence of numbers
    K,                  \* number of clusters
    m,                  \* degree of fuzziness
    epsilon,            \* convergence tolerance
    max_it,             \* iteration budget
    rng,                \* what the global numpy random state will draw
    u,                  \* the c-partition matrix U (K x n)
    centroids,          \* the centroids V (K x d)
    previous_centroids, \* fit's snapshot of the centroids, None before the first
    it,                 \* iteration counter
    pc,                 \* where fit is
    k_values,           \* optimize: the candidate values of K
    goal,               \* optimize: "minimize" or "maximize"
    n_classes,          \* generate_results: number of distinct classes of Y
    pending,            \* optimize: the candidates not yet run
    records,            \* optimize: the records collected so far, in order of arrival
    results,            \* what optimize returned
    best,               \* generate_results: the record reported as the best K
    real_k,             \* generate_results: the record reported for K = #classes
    opt_pc,             \* where the optimisation and its report are
    algorithm,          \* "kIBL" (run_kIBL) or "reduction" (run_reduction_kIBL)
    par,                \* the par argument
    folds,              \* the folds argument: what the run on each fold yields
    cores,              \* the number of threads of the pool
    worker,             \* per fold index: "queued", "running", "finished", "handled"
    outqueue,           \* the pool's queue of finished tasks, oldest first
    fold_results,       \* the dict the callbacks fill, then the list
    writes,             \* the stores into fold_results: slot and task, in order
    kibl_results,       \* what the experiment appended to results
    sweep_pc,           \* where the experiment is
    test,               \* the test argument
    kibl_json,          \* run_stat_select_kIBL: results, as loaded from the file
    stats_accuracy,     \* the matrix of (statistic, p) on the accuracies
    stats_time,         \* the matrix of (statistic, p) on the times
    select_mat_acc,     \* eval_stat_test(stats_accuracy, ...)
    select_mat_time,    \* eval_stat_test(stats_time, ...)
    mat,                \* eval_stat_test: its first argument
    select_mat,         \* eval_stat_test: what it returns
    stat_pc             \* where the selection is

fcm_vars == <<pc, it, X, K, m, epsilon, max_it, rng, u, centroids, previous_centroids>>

opt_vars == <<opt_pc, k_values, goal, n_classes, pending, records, results, best, real_k>>

sweep_vars ==
    <<sweep_pc, algorithm, par, folds, cores, worker, outqueue, fold_results, writes,
      kibl_results>>

stat_vars ==
    <<stat_pc, test, kibl_json, stats_accuracy, stats_time, select_mat_acc, select_mat_time,
      mat, select_mat>>

w3_vars == <<sweep_vars, stat_vars>>

vars == <<fcm_vars, opt_vars, w3_vars>>

None == <<>>

N == Len(X)

Coords == 0 .. MaxCoord
Points == {<<Rat(a, 1), Rat(b, 1)>> : a \in Coords, b \in Coords}

\* The datasets: two points of the plane, up to the order of the rows (which
\* row seeds which centroid is the draw idx).
RowLeq(p, q) == p[1][1] < q[1][1] \/ (p[1][1] = q[1][1] /\ p[2][1] <= q[2][1])
Datasets == {d \in Points \X Points : RowLeq(d[1], d[2])}
Dims == 1 .. 2

\* The degrees of fuzziness tried: 2 is what run_fcm passes, 1 is "crisp".
MValues == {1, 2}

\* epsilon: 0, the default 0.01, 1, and a value no centroid movement reaches.
BigEps == Rat(2 * MaxCoord + 1, 1)
EpsValues == {Zero, Rat(1, 100), One, BigEps}

\* np.random.random(size=(K, n)): values in [0, 1).
RawValues == {Rat(r, MaxRaw + 1) : r \in 0 .. MaxRaw}

\* The draws of the random state: the matrix _init_u reads and the K distinct
\* rows the inherited centroid initialisation picks.
Draws(k, n) ==
    {d \in [u : [1 .. k -> [1 .. n -> RawValues]], idx : [1 .. k -> 1 .. n]] :
        \A a, b \in 1 .. k : a # b => d.idx[a] # d.idx[b]}

UniformDraw(r) == \A k1, k2 \in DOMAIN r : \A i, j \in DOMAIN r[k1] : r[k1][i] = r[k2][j]

\* Runs whose exact values stay within TLC's 32-bit integers: one cluster, a
\* uniform initial U (a fixed point), or an epsilon so large that a run with
\* finite centroids stops after its first iteration.
Tractable(k, eps, draw) ==
    k = 1 \/ UniformDraw(draw.u) \/ eps = BigEps

\* x ** 2
Sq(a) == Mul(a, a)

\* FuzzyCMeans._init_u: u / u.sum(axis=0)
init_u(raw) ==
    [k \in DOMAIN raw |->
        [i \in DOMAIN raw[k] |->
            Div(raw[k][i], SumSeq([j \in DOMAIN raw |-> raw[j][i]]))]]

\* One row of _update_v: n_term / d_term for the weights u_pow_m of a cluster.
WeightedMeanV(u_pow_m, x) ==
    [c \in Dims |->
        Div(SumSeq([i \in DOMAIN x |-> Mul(u_pow_m[i], x[i][c])]), SumSeq(u_pow_m))]

WeightedMean(u_pow_m, x) == Strict2(WeightedMeanV, u_pow_m, x)

\* _update_v without the exponent: v_k = sum_i U_ki x_i / sum_i U_ki
update_v_unweighted(U, x, mm) ==
    [k \in DOMAIN U |-> WeightedMean(U[k], x)]

\* FuzzyCMeans._update_v: v_k = sum_i (U_ki ^ m) x_i / sum_i (U_ki ^ m)
update_v(U, x, mm) ==
    [k \in DOMAIN U |-> WeightedMean([i \in DOMAIN U[k] |-> Pow(U[k][i], mm)], x)]

\* np.linalg.norm(p - q) ** 2: the squared Euclidean distance.
Dist2(p, q) == SumSeq([c \in Dims |-> Sq(Sub(p[c], q[c]))])

\* (num / den) ** (2 / (m - 1)) with num, den the norms whose squares are n2, d2:
\* for m = 2 the exponent is 2 and the power is n2 / d2 (0/0 = nan, x/0 = inf).
RatioPow(n2, d2, mm) == Div(n2, d2)

\* The value _update_u stores in u[k, i] before the normalisation.
Membership(x, V, mm, k, i) ==
    Recip(SumSeq([j \in DOMAIN V |-> RatioPow(Dist2(x[i], V[k]), Dist2(x[i], V[j]), mm)]))

\* self.u / self.u.sum(axis=0)
NormaliseV(U) ==
    [k \in DOMAIN U |->
        [i \in DOMAIN U[k] |-> Div(U[k][i], SumSeq([j \in DOMAIN U |-> U[j][i]]))]]

Normalise(U) == Strict1(NormaliseV, U)

\* FuzzyCMeans._update_u (m # 1)
update_u(x, V, mm) ==
    Normalise([k \in DOMAIN V |-> [i \in DOMAIN x |-> Membership(x, V, mm, k, i)]])

\* _update_u with the accumulator starting from the stored entry instead of 0:
\* u_ki = self.u[k, i]; ...; u_ki **= -1
StoreEntryAccumulated(U, x, V, mm, e) ==
    [U EXCEPT ![e[1]][e[2]] =
        Recip(Add(U[e[1]][e[2]],
                  SumSeq([j \in DOMAIN V |->
                      RatioPow(Dist2(x[e[2]], V[e[1]]), Dist2(x[e[2]], V[j]), mm)])))]

\* One pass of the loop body of _update_u for the entry e = (k, i): u_ki starts
\* from 0, sums over the centroids, is inverted and overwrites self.u[k, i].
StoreEntry(U, x, V, mm, e) ==
    [U EXCEPT ![e[1]][e[2]] = Membership(x, V, mm, e[1], e[2])]

\* _update_u as the code runs it: the entries of self.u are overwritten in
\* place, one after the other in the given order, then the columns are
\* normalised.
RECURSIVE update_u_loop(_, _, _, _, _)
update_u_loop(U, x, V, mm, order) ==
    IF order = <<>>
    THEN Normalise(U)
    ELSE CHOOSE r \in {update_u_loop(stored, x, V, mm, Tail(order)) :
                        stored \in {StoreEntry(U, x, V, mm, Head(order))}} : TRUE

\* for k in range(self.K): for i in range(self.X.shape[0]): the order of the code.
LoopOrder(k, n) == [e \in 1 .. k * n |-> <<((e - 1) \div n) + 1, ((e - 1) % n) + 1>>]

\* Every order in which the (k, i) entries can be visited.
Orders(k, n) ==
    {o \in [1 .. k * n -> (1 .. k) \X (1 .. n)] :
        \A a, b \in 1 .. k * n : a # b => o[a] # o[b]}

\* A K x n matrix filled with one value.
Filled(k, n, v) == [a \in 1 .. k |-> [i \in 1 .. n |-> v]]

\* FuzzyCMeans._loss
loss(U, x, V, mm) ==
    SumSeq([i \in DOMAIN x |->
        SumSeq([k \in DOMAIN V |-> Mul(Pow(U[k][i], mm), Dist2(x[i], V[k]))])])

\* np.linalg.norm(A, ord=1) of a matrix: the largest column sum of |A|.
MatrixNorm1V(A) ==
    MaxSeq([c \in Dims |-> SumSeq([k \in DOMAIN A |-> AbsVal(A[k][c])])])

MatrixNorm1(A) == Strict1(MatrixNorm1V, A)

MatSub(A, B) == [k \in DOMAIN A |-> [c \in Dims |-> Sub(A[k][c], B[k][c])]]

\* _check_convergence with > in the place of >= in the budget test.
check_convergence_late(i, mi, V, prev, eps) ==
    IF i > mi THEN TRUE
    ELSE IF prev # None THEN Less(MatrixNorm1(MatSub(V, prev)), eps)
    ELSE FALSE

\* FuzzyCMeans._check_convergence
check_convergence(i, mi, V, prev, eps) ==
    IF i >= mi THEN TRUE
    ELSE IF prev # None THEN Less(MatrixNorm1(MatSub(V, prev)), eps)
    ELSE FALSE

\* numpy's argmin: the lowest index of the minimum, the first nan when there
\* is one.
ArgMinFirst(s) ==
    IF \E k \in DOMAIN s : s[k] = NaN
    THEN CHOOSE k \in DOMAIN s : s[k] = NaN /\ \A j \in 1 .. k - 1 : s[j] # NaN
    ELSE CHOOSE k \in DOMAIN s :
            /\ \A j \in DOMAIN s : ~Less(s[j], s[k])
            /\ \A j \in 1 .. k - 1 : Less(s[k], s[j])

\* FuzzyCMeans.crisp_predict: KMeans.predict, each point's nearest centroid.
crisp_predict(x, V) ==
    [i \in DOMAIN x |-> ArgMinFirst([k \in DOMAIN V |-> Dist2(x[i], V[k])])]

\* FuzzyCMeans.predict
predict == <<u, centroids>>

\* ------------------------------------------- the optimisation of K, the report
Goals == {"minimize", "maximize"}

Scores == 0 .. MaxScore

NoRecord == [k |-> 0, score |-> 0]

\* list(range(KFirst, KFirst + n))
KRange(n) == [i \in 1 .. n |-> KFirst + i - 1]

SeqRange(s) == {s[i] : i \in DOMAIN s}

\* Score a is strictly better than score b under the goal.
Better(g, a, b) == IF g = "maximize" THEN a > b ELSE a < b

\* The records sorted by score according to the goal, best first; records of
\* equal score keep their order of arrival.
RECURSIVE SortByGoal(_, _)
SortByGoal(recs, g) ==
    IF recs = <<>> THEN <<>>
    ELSE LET front == SortByGoal(SubSeq(recs, 1, Len(recs) - 1), g)
             r     == recs[Len(recs)]
             pos   == Cardinality({j \in DOMAIN front : ~Better(g, r.score, front[j].score)})
         IN  SubSeq(front, 1, pos) \o <<r>> \o SubSeq(front, pos + 1, Len(front))

\* results[-1]
LastRecord(res) == res[Len(res)]

\* generate_results: results[0], the record of "the best K".
BestRecord(res) == res[1]

\* list(filter(lambda r: r['k'] == n - 1, results))
RealKMatchesBelow(res, n) == SelectSeq(res, LAMBDA r : r.k = n - 1)

\* generate_results: list(filter(lambda r: r['k'] == n_classes, results))
RealKMatches(res, n) == SelectSeq(res, LAMBDA r : r.k = n)

TypeOK ==
    /\ pc \in {"start", "constructed", "check", "update_v", "update_u", "done", "raised"}
    /\ opt_pc \in {"start", "sweep", "sorted", "reported", "raised"}
    /\ it \in 0 .. MaxIt
    /\ goal \in Goals
    /\ pending \subseteq SeqRange(k_values)

Init ==
    /\ X = None
    /\ K = 0
    /\ m = 0
    /\ epsilon = Zero
    /\ max_it = 0
    /\ rng = None
    /\ u = None
    /\ centroids = None
    /\ previous_centroids = None
    /\ it = 0
    /\ pc = "start"
    /\ k_values = <<>>
    /\ goal = "minimize"
    /\ n_classes = 1
    /\ pending = {}
    /\ records = <<>>
    /\ results = <<>>
    /\ best = NoRecord
    /\ real_k = NoRecord
    /\ opt_pc = "start"
    /\ algorithm = "kIBL"
    /\ par = FALSE
    /\ folds = <<>>
    /\ cores = 0
    /\ worker = <<>>
    /\ outqueue = <<>>
    /\ fold_results = <<>>
    /\ writes = <<>>
    /\ kibl_results = None
    /\ sweep_pc = "start"
    /\ test = "wilcoxon"
    /\ kibl_json = <<>>
    /\ stats_accuracy = None
    /\ stats_time = None
    /\ select_mat_acc = None
    /\ select_mat_time = None
    /\ mat = None
    /\ select_mat = None
    /\ stat_pc = "start"

\* FuzzyCMeans.__init__ stores m, epsilon and the inherited K and max_it as
\* given; the dataset fit will receive and the state of the global random
\* generator are fixed here too.
Construct ==
    /\ pc = "start"
    /\ X' \in Datasets
    /\ K' \in 1 .. 2
    /\ m' \in MValues
    /\ epsilon' \in EpsValues
    /\ max_it' \in {1, MaxIt}
    /\ rng' \in {d \in Draws(K', Len(X')) : Tractable(K', epsilon', d)}
    /\ pc' = "constructed"
    /\ UNCHANGED <<u, centroids, previous_centroids, it>>
    /\ UNCHANGED <<opt_vars, w3_vars>>

\* FuzzyCMeans._init_centroids: the inherited initialisation, then _init_u.
InitCentroids ==
    /\ pc = "constructed"
    /\ centroids' = [k \in 1 .. K |-> X[rng.idx[k]]]
    /\ u' = init_u(rng.u)
    /\ pc' = "check"
    /\ UNCHANGED <<X, K, m, epsilon, max_it, rng, previous_centroids, it>>
    /\ UNCHANGED <<opt_vars, w3_vars>>

\* fit: the loop test is true, the run ends.
Converged ==
    /\ pc = "check"
    /\ check_convergence(it, max_it, centroids, previous_centroids, epsilon)
    /\ pc' = "done"
    /\ UNCHANGED <<X, K, m, epsilon, max_it, rng, u, centroids, previous_centroids, it>>
    /\ UNCHANGED <<opt_vars, w3_vars>>

\* fit: the loop test is false, the body starts with the snapshot.
Snapshot ==
    /\ pc = "check"
    /\ ~check_convergence(it, max_it, centroids, previous_centroids, epsilon)
    /\ previous_centroids' = centroids
    /\ pc' = "update_v"
    /\ UNCHANGED <<X, K, m, epsilon, max_it, rng, u, centroids, it>>
    /\ UNCHANGED <<opt_vars, w3_vars>>

\* _compute_centroids, first half: self._update_v()
UpdateV ==
    /\ pc = "update_v"
    /\ centroids' = update_v(u, X, m)
    /\ pc' = "update_u"
    /\ UNCHANGED <<X, K, m, epsilon, max_it, rng, u, previous_centroids, it>>
    /\ UNCHANGED <<opt_vars, w3_vars>>

\* _compute_centroids, second half: self._update_u(), then fit's it += 1.
\* With m = 1 the first 2 / (self.m - 1) raises ZeroDivisionError.
UpdateU ==
    /\ pc = "update_u"
    /\ IF m = 1
       THEN /\ pc' = "raised"
            /\ UNCHANGED <<u, it>>
       ELSE /\ u' = update_u(X, centroids, m)
            /\ it' = it + 1
            /\ pc' = "check"
    /\ UNCHANGED <<X, K, m, epsilon, max_it, rng, centroids, previous_centroids>>
    /\ UNCHANGED <<opt_vars, w3_vars>>

Next == Construct \/ InitCentroids \/ Converged \/ Snapshot \/ UpdateV \/ UpdateU

Spec == Init /\ [][Next]_vars

\* fit is sequential code: a step that can be taken is taken.
FairSpec == Spec /\ WF_vars(Next)

\* run_kmeans, run_kmodes, run_kprototypes, run_fcm: optimize(..., k_values=
\* list(range(2, ...)), goal=...) on a dataset whose Y has n_classes classes.
Optimize ==
    /\ opt_pc = "start"
    /\ \E n \in 1 .. MaxCandidates :
        /\ k_values' = KRange(n)
        /\ pending' = SeqRange(KRange(n))
    /\ goal' \in Goals
    /\ n_classes' \in 1 .. MaxClasses
    /\ opt_pc' = "sweep"
    /\ UNCHANGED <<records, results, best, real_k>>
    /\ UNCHANGED <<fcm_vars, w3_vars>>

\* optimize: the run for one candidate K ends and its record is collected; the
\* candidates are independent and end in any order.
RunCandidate ==
    /\ opt_pc = "sweep"
    /\ \E k \in pending : \E s \in Scores :
        /\ records' = Append(records, [k |-> k, score |-> s])
        /\ pending' = pending \ {k}
    /\ UNCHANGED <<k_values, goal, n_classes, results, best, real_k, opt_pc>>
    /\ UNCHANGED <<fcm_vars, w3_vars>>

\* optimize: every candidate has its record; the sorted sequence is returned.
Finish ==
    /\ opt_pc = "sweep"
    /\ pending = {}
    /\ results' = SortByGoal(records, goal)
    /\ opt_pc' = "sorted"
    /\ UNCHANGED <<k_values, goal, n_classes, pending, records, best, real_k>>
    /\ UNCHANGED <<fcm_vars, w3_vars>>

\* generate_results: the evaluation of results[0], then of the first record
\* with k == n_classes; [0] of an empty list raises IndexError.
GenerateResults ==
    /\ opt_pc = "sorted"
    /\ best' = BestRecord(results)
    /\ IF RealKMatches(results, n_classes) = <<>>
       THEN /\ opt_pc' = "raised"
            /\ UNCHANGED real_k
       ELSE /\ real_k' = RealKMatches(results, n_classes)[1]
            /\ opt_pc' = "reported"
    /\ UNCHANGED <<k_values, goal, n_classes, pending, records, results>>
    /\ UNCHANGED <<fcm_vars, w3_vars>>

OptNext == Optimize \/ RunCandidate \/ Finish \/ GenerateResults

OptSpec == Init /\ [][OptNext]_vars

\* ------------------------------------------------- labs/w3/run.py: a sweep
\* min(multiprocessing.cpu_count(), 5)
PoolCap == 5

Min(a, b) == IF a <= b THEN a ELSE b

Accs == {Rat(a, MaxAcc) : a \in 0 .. MaxAcc}
Times == {Rat(t, 1) : t \in 1 .. MaxTime}

\* A fold, by what the run on it yields: the exception or the accuracy and the
\* elapsed time of run_knn_fold, and the sizes of the training set before and
\* after the reduction.
FoldSet ==
    {fd \in [raises : BOOLEAN, accuracy : Accs, time : Times,
             old_dim : 1 .. MaxTrain, new_dim : 1 .. MaxTrain] :
        /\ fd.new_dim <= fd.old_dim
        /\ fd.raises => (fd.accuracy = Zero /\ fd.time = Rat(1, 1))}

\* A Python tuple of two items.
PyTuple(a, b) == [item0 |-> a, item1 |-> b]

\* run_knn_fold: return i, {'accuracy': ..., 'time': ...}
run_knn_fold(fd, i) == PyTuple(i, [accuracy |-> fd.accuracy, time |-> fd.time])

\* run_reduction_kIBL_fold: the result of run_knn_fold with the two sizes added
\* to its dict.
run_reduction_kIBL_fold(fd, i) ==
    PyTuple(i, [accuracy |-> fd.accuracy, time |-> fd.time,
                new_dim |-> fd.new_dim, old_dim |-> fd.old_dim])

\* The function a task of the pool runs.
FoldRun(alg, fd, i) ==
    IF alg = "kIBL" THEN run_knn_fold(fd, i) ELSE run_reduction_kIBL_fold(fd, i)

\* The sequential branch: run_kIBL keeps what run_knn_fold returns,
\* run_reduction_kIBL keeps item [1] of what run_reduction_kIBL_fold returns.
SequentialEntry(alg, fd, i) ==
    IF alg = "kIBL" THEN run_knn_fold(fd, i) ELSE run_reduction_kIBL_fold(fd, i).item1

\* The fold indices: range(len(folds)).
FoldIndices == 0 .. Len(folds) - 1

\* dict.update({key: value})
DictUpdate(d, key, value) ==
    [x \in DOMAIN d \cup {key} |-> IF x = key THEN value ELSE d[x]]

\* run_kIBL / run_reduction_kIBL up to the branch on par.  With par the pool is
\* created and every fold is submitted with apply_async; the tasks wait in the
\* pool's queue.
StartSweep ==
    /\ sweep_pc = "start"
    /\ algorithm' \in {"kIBL", "reduction"}
    /\ par' \in BOOLEAN
    /\ \E n \in 1 .. MaxFolds : folds' \in [1 .. n -> FoldSet]
    /\ IF par'
       THEN /\ \E cpu_count \in 1 .. MaxCpu : cores' = Min(cpu_count, PoolCap)
            /\ worker' = [f \in 0 .. Len(folds') - 1 |-> "queued"]
            /\ sweep_pc' = "pool"
       ELSE /\ UNCHANGED <<cores, worker>>
            /\ sweep_pc' = "map"
    /\ UNCHANGED <<outqueue, fold_results, writes, kibl_results>>
    /\ UNCHANGED <<fcm_vars, opt_vars, stat_vars>>

\* The sequential branch: list(map(...)) over enumerate(folds); an exception of
\* a fold run leaves the function.
RunSequential ==
    /\ sweep_pc = "map"
    /\ IF \E f \in DOMAIN folds : folds[f].raises
       THEN /\ sweep_pc' = "raised"
            /\ UNCHANGED fold_results
       ELSE /\ fold_results' =
                [f \in DOMAIN folds |-> SequentialEntry(algorithm, folds[f], f - 1)]
            /\ sweep_pc' = "assembled"
    /\ UNCHANGED <<algorithm, par, folds, cores, worker, outqueue, writes, kibl_results>>
    /\ UNCHANGED <<fcm_vars, opt_vars, stat_vars>>

\* A free thread of the pool takes the oldest waiting task.
WorkerStart ==
    /\ sweep_pc = "pool"
    /\ Cardinality({f \in DOMAIN worker : worker[f] = "running"}) < cores
    /\ \E f \in DOMAIN worker :
        /\ worker[f] = "queued"
        /\ \A g \in DOMAIN worker : worker[g] = "queued" => f <= g
        /\ worker' = [worker EXCEPT ![f] = "running"]
    /\ UNCHANGED <<sweep_pc, algorithm, par, folds, cores, outqueue, fold_results, writes,
                   kibl_results>>
    /\ UNCHANGED <<fcm_vars, opt_vars, stat_vars>>

\* A running task ends: the thread puts what the fold run returned, or the
\* exception it raised, on the queue of finished tasks.
WorkerFinish ==
    /\ sweep_pc = "pool"
    /\ \E f \in DOMAIN worker :
        /\ worker[f] = "running"
        /\ worker' = [worker EXCEPT ![f] = "finished"]
        /\ outqueue' = Append(outqueue,
                [job |-> f,
                 success |-> ~folds[f + 1].raises,
                 value |-> FoldRun(algorithm, folds[f + 1], f)])
    /\ UNCHANGED <<sweep_pc, algorithm, par, folds, cores, fold_results, writes, kibl_results>>
    /\ UNCHANGED <<fcm_vars, opt_vars, stat_vars>>

\* The result-handler thread of the pool takes the oldest finished task.  A
\* returned value goes to the callback, lambda x: fold_results.update({x[0]:
\* x[1]}); an exception goes to the error_callback, and apply_async was given
\* none: it stays in the AsyncResult nobody keeps.
HandleResult ==
    /\ sweep_pc = "pool"
    /\ outqueue # <<>>
    /\ LET done == Head(outqueue)
           x == done.value
       IN  /\ IF done.success
              THEN /\ fold_results' = DictUpdate(fold_results, x.item0, x.item1)
                   /\ writes' = Append(writes, [slot |-> x.item0, job |-> done.job])
              ELSE UNCHANGED <<fold_results, writes>>
           /\ worker' = [worker EXCEPT ![done.job] = "handled"]
    /\ outqueue' = Tail(outqueue)
    /\ UNCHANGED <<sweep_pc, algorithm, par, folds, cores, kibl_results>>
    /\ UNCHANGED <<fcm_vars, opt_vars, stat_vars>>

\* pool.close(); pool.join() returns once every task has run and the handler
\* thread has emptied the queue.
Join ==
    /\ sweep_pc = "pool"
    /\ \A f \in DOMAIN worker : worker[f] = "handled"
    /\ sweep_pc' = "joined"
    /\ UNCHANGED <<algorithm, par, folds, cores, worker, outqueue, fold_results, writes,
                   kibl_results>>
    /\ UNCHANGED <<fcm_vars, opt_vars, stat_vars>>

\* fold_results = [fold_results[f] for f in range(len(folds))]; a key that is
\* not in the dict raises KeyError.
Assemble ==
    /\ sweep_pc = "joined"
    /\ IF \A f \in FoldIndices : f \in DOMAIN fold_results
       THEN /\ fold_results' = [i \in DOMAIN folds |-> fold_results[i - 1]]
            /\ sweep_pc' = "assembled"
       ELSE /\ sweep_pc' = "raised"
            /\ UNCHANGED fold_results
    /\ UNCHANGED <<algorithm, par, folds, cores, worker, outqueue, writes, kibl_results>>
    /\ UNCHANGED <<fcm_vars, opt_vars, stat_vars>>

\* results.append({..., 'results': fold_results})
AppendResults ==
    /\ sweep_pc = "assembled"
    /\ kibl_results' = [experiment |-> algorithm, results |-> fold_results]
    /\ sweep_pc' = "recorded"
    /\ UNCHANGED <<algorithm, par, folds, cores, worker, outqueue, fold_results, writes>>
    /\ UNCHANGED <<fcm_vars, opt_vars, stat_vars>>

SweepNext ==
    \/ StartSweep \/ RunSequential \/ WorkerStart \/ WorkerFinish \/ HandleResult
    \/ Join \/ Assemble \/ AppendResults

SweepSpec == Init /\ [][SweepNext]_vars

\* --------------------------------------- labs/w3/run.py: the statistical tests
TEST_METHODS == {"anova", "wilcoxon", "ttest"}

\* eval_stat_test(..., alpha=0.05)
alpha == Rat(1, 20)

\* The records of a model: {'accuracy': ..., 'time': ...} per fold.
FoldRecords == [accuracy : Accs, time : Times]

\* The results files run_kIBL writes in parallel mode: every model has one
\* record per fold, the same number for every model.
ResultFiles ==
    UNION {[1 .. nm -> [config : 1 .. MaxModels, results : [1 .. ns -> FoldRecords]]] :
                nm \in 2 .. MaxModels, ns \in 1 .. MaxSamples}

\* Every model has its own configuration, in the order of run_kIBL's loops.
ConfigsInLoopOrder(res) == \A i \in DOMAIN res : res[i].config = i

\* list(map(lambda x: x[field], model['results']))
Sample(model, field) == [f \in DOMAIN model.results |-> model.results[f][field]]

\* np.mean
Mean(sample) == Div(SumSeq(sample), Rat(Len(sample), 1))

\* x - y, elementwise.
Differences(x, y) == [i \in DOMAIN x |-> Sub(x[i], y[i])]

\* Twice the rank of |d[i]| among the absolute values of the nonzero
\* differences, ties sharing the average rank.
Rank2(d, i) ==
    2 * Cardinality({j \in DOMAIN d : d[j] # Zero /\ Less(AbsVal(d[j]), AbsVal(d[i]))})
        + Cardinality({j \in DOMAIN d : d[j] # Zero /\ AbsVal(d[j]) = AbsVal(d[i])}) + 1

\* The zero differences dropped, each other difference as its doubled rank
\* with the sign of the difference.
SignedRanks(d) ==
    [i \in {j \in DOMAIN d : d[j] # Zero} |-> Sign(d[i][1]) * Rank2(d, i)]

\* The sum of the doubled ranks of the differences in S.
RECURSIVE RankSum(_, _)
RankSum(sr, S) ==
    IF S = {}
    THEN 0
    ELSE LET i == CHOOSE i \in S : TRUE
         IN  Abs(sr[i]) + RankSum(sr, S \ {i})

\* Twice min(r_plus, r_minus).
Statistic2(sr) ==
    Min(RankSum(sr, {i \in DOMAIN sr : sr[i] > 0}), RankSum(sr, {i \in DOMAIN sr : sr[i] < 0}))

\* min(1, q)
CapAtOne(q) == IF q[1] > q[2] THEN One ELSE q

\* The two-sided p-value of the statistic T2 / 2: twice the share of the sign
\* assignments whose rank sum is at most the statistic.
PValue(sr, T2) ==
    Strict1(CapAtOne,
            Rat(2 * Cardinality({S \in SUBSET DOMAIN sr : RankSum(sr, S) <= T2}),
                2 ^ Cardinality(DOMAIN sr)))

WilcoxonResult(sr, T2) ==
    IF DOMAIN sr = {}
    THEN [raises |-> TRUE, stat |-> Zero, p |-> One]
    ELSE [raises |-> FALSE, stat |-> Rat(T2, 2), p |-> PValue(sr, T2)]

WilcoxonOfRanks(sr) == Strict2(WilcoxonResult, sr, Statistic2(sr))

\* scipy.stats.wilcoxon(x, y): the zero differences are dropped; the statistic
\* is the smaller of the rank sums of the positive and of the negative
\* differences; the p-value is two-sided, from the null distribution of the
\* rank sum over all sign assignments.  With no difference left it raises
\* ValueError.
wilcoxon(x, y) ==
    Strict1(WilcoxonOfRanks, Strict1(SignedRanks, Differences(x, y)))

\* compute_stat_test: except ValueError: stat, p = 0, 1
OrDefault(r) == IF r.raises THEN [stat |-> Zero, p |-> One] ELSE [stat |-> r.stat, p |-> r.p]

\* compute_stat_test for test = 'wilcoxon'
compute_stat_test(sample1, sample2) == Strict1(OrDefault, wilcoxon(sample1, sample2))

\* np.full(shape=(len(results), len(results), 2), fill_value=np.nan)
NaNMatrix(n) == [i \in 1 .. n |-> [j \in 1 .. n |-> <<NaN, NaN>>]]

\* run_stat_select_kIBL, what the loop body stores for the results of the two
\* tests: stats_accuracy[i, j] = np.array([stat_accuracy['stat'],
\* stat_accuracy['p']]) and stats_time[i, j] = np.array([stat_accuracy['stat'],
\* stat_time['p']]).
StoredEntries(tests) ==
    [stats_accuracy |-> <<tests["accuracy"].stat, tests["accuracy"].p>>,
     stats_time |-> <<tests["accuracy"].stat, tests["time"].p>>]

\* run_stat_select_kIBL, the body of the double loop for two different models:
\* the two tests, then the entries stored into the two matrices.
PairEntries(model1, model2) ==
    Strict1(StoredEntries,
            [field \in {"accuracy", "time"} |->
                compute_stat_test(Sample(model1, field), Sample(model2, field))])

\* run_stat_select_kIBL, the double loop: the matrices it leaves, as the pair
\* [stats_accuracy, stats_time] for every (i, j).
StatMatrices(res) ==
    [i \in DOMAIN res |-> [j \in DOMAIN res |->
        IF res[i] = res[j]
        THEN [stats_accuracy |-> NaNMatrix(Len(res))[i][j],
              stats_time |-> NaNMatrix(Len(res))[i][j]]
        ELSE PairEntries(res[i], res[j])]]

\* eval_stat_test, the branch of 'wilcoxon' for one entry: the three-way choice
\* on the mean accuracies, then the assignment that follows it.
EvalWilcoxon(entry, results_i, results_j) ==
    LET statistic == entry[1]
        p_value == entry[2]
        mean_acc1 == Mean(Sample(results_i, "accuracy"))
        mean_acc2 == Mean(Sample(results_j, "accuracy"))
        by_mean == IF Less(mean_acc2, mean_acc1) THEN 1
                   ELSE IF Less(mean_acc1, mean_acc2) THEN 2
                   ELSE 0
        after_if == <<by_mean, 2>>
    IN  IF Less(p_value, alpha)
        THEN IF Less(Zero, statistic) THEN after_if[Len(after_if)] ELSE 0
        ELSE 0

\* eval_stat_test, the branch of 'ttest' for one entry.
EvalTTest(entry) ==
    LET statistic == entry[1]
        p_value == entry[2]
    IN  IF Less(p_value, alpha)
        THEN IF Less(statistic, Zero) THEN 2
             ELSE IF Less(Zero, statistic) THEN 1
             ELSE 0
        ELSE 0

\* eval_stat_test for test in {'wilcoxon', 'ttest'}
eval_stat_test(A, res, tst) ==
    [i \in DOMAIN A |-> [j \in DOMAIN A[i] |->
        IF tst = "wilcoxon" THEN EvalWilcoxon(A[i][j], res[i], res[j]) ELSE EvalTTest(A[i][j])]]

\* The statistics and p-values eval_stat_test is applied to.
StatValues == {Rat(-1, 1), Zero, One}
PValues == {Rat(1, 100), alpha, One}

\* Matrices as run_stat_select_kIBL builds them: nan on the diagonal.
Mats(n) ==
    {A \in [1 .. n -> [1 .. n -> StatValues \X PValues \cup {<<NaN, NaN>>}]] :
        \A i, j \in 1 .. n : (A[i][j] = <<NaN, NaN>>) <=> (i = j)}

\* run_stat_select_kIBL: the test is checked, the results file is read.
LoadResults ==
    /\ stat_pc = "start"
    /\ test' \in TEST_METHODS \cup {"friedman"}
    /\ IF test' \notin TEST_METHODS \/ test' = "anova"
       THEN /\ stat_pc' = "raised"
            /\ UNCHANGED kibl_json
       ELSE /\ kibl_json' \in {res \in ResultFiles : ConfigsInLoopOrder(res)}
            /\ stat_pc' = "loaded"
    /\ UNCHANGED <<stats_accuracy, stats_time, select_mat_acc, select_mat_time, mat,
                   select_mat>>
    /\ UNCHANGED <<fcm_vars, opt_vars, sweep_vars>>

\* run_stat_select_kIBL: the two matrices are filled, the pairs of equal models
\* are left at nan.
ComputeStats ==
    /\ stat_pc = "loaded"
    /\ test = "wilcoxon"
    /\ \E both \in {StatMatrices(kibl_json)} :
        /\ stats_accuracy' =
            [i \in DOMAIN both |-> [j \in DOMAIN both |-> both[i][j].stats_accuracy]]
        /\ stats_time' =
            [i \in DOMAIN both |-> [j \in DOMAIN both |-> both[i][j].stats_time]]
    /\ stat_pc' = "computed"
    /\ UNCHANGED <<test, kibl_json, select_mat_acc, select_mat_time, mat, select_mat>>
    /\ UNCHANGED <<fcm_vars, opt_vars, sweep_vars>>

\* run_stat_select_kIBL: eval_stat_test on each of the two matrices.
SelectModels ==
    /\ stat_pc = "computed"
    /\ select_mat_acc' = eval_stat_test(stats_accuracy, kibl_json, test)
    /\ select_mat_time' = eval_stat_test(stats_time, kibl_json, test)
    /\ stat_pc' = "selected"
    /\ UNCHANGED <<test, kibl_json, stats_accuracy, stats_time, mat, select_mat>>
    /\ UNCHANGED <<fcm_vars, opt_vars, sweep_vars>>

\* eval_stat_test(mat, results, test) on a matrix of statistics and p-values.
EvalStatTest ==
    /\ stat_pc = "loaded"
    /\ mat' \in Mats(Len(kibl_json))
    /\ select_mat' = eval_stat_test(mat', kibl_json, test)
    /\ stat_pc' = "evaluated"
    /\ UNCHANGED <<test, kibl_json, stats_accuracy, stats_time, select_mat_acc,
                   select_mat_time>>
    /\ UNCHANGED <<fcm_vars, opt_vars, sweep_vars>>

StatNext == LoadResults \/ ComputeStats \/ SelectModels \/ EvalStatTest

StatSpec == Init /\ [][StatNext]_vars

\* ------------------------------------------------------------- properties
Column(U, i) == [k \in DOMAIN U |-> U[k][i]]

\* Every column of U sums to 1 and every entry lies in [0, 1].
ColumnStochastic(U) ==
    \A i \in DOMAIN U[1] :
        /\ SumSeq(Column(U, i)) = One
        /\ \A k \in DOMAIN U : Leq(Zero, U[k][i]) /\ Leq(U[k][i], One)

FiniteMatrix(A) == \A k \in DOMAIN A : \A c \in DOMAIN A[k] : IsFinite(A[k][c])

\* np.random.random returned no 0.0.
PositiveDraws == \A k \in DOMAIN rng.u : \A i \in DOMAIN rng.u[k] : rng.u[k][i] # Zero

\* Point i lies exactly on centroid k.
Coincides(i, k) == FiniteMatrix(centroids) /\ X[i] = centroids[k]

\* C1: after _init_u and after every _update_u (fit is back at its loop test
\* or has ended), each column of U sums to 1 and each entry lies in [0, 1];
\* stated for the runs whose random draws are all positive.
C1_ColumnsSumToOne ==
    (pc \in {"check", "done"} /\ PositiveDraws) => ColumnStochastic(u)

\* The sum of the absolute values of all entries of A.
EntrywiseL1V(A) ==
    SumSeq([k \in DOMAIN A |-> SumSeq([c \in Dims |-> AbsVal(A[k][c])])])

EntrywiseL1(A) == Strict1(EntrywiseL1V, A)

\* C2: at the loop test, _check_convergence is true exactly when the budget is
\* exhausted, or a snapshot exists and the sum of the absolute coordinate
\* differences between the current and the previous centroids is below epsilon.
C2_ConvergedIffEntrywiseL1 ==
    pc = "check" =>
        (check_convergence(it, max_it, centroids, previous_centroids, epsilon)
            <=> \/ it >= max_it
                \/ /\ previous_centroids # None
                   /\ Less(EntrywiseL1(MatSub(centroids, previous_centroids)), epsilon))

Terminated == pc \in {"done", "raised"}

\* C3: every run ends (the loop test becomes true, or with m = 1 the first
\* iteration raises), and the iteration counter never exceeds max_it.
C3_RunTerminates == [](pc # "start" => it <= max_it) /\ <>Terminated

\* A run that used its whole budget of more than one iteration because the
\* centroid movement never fell below epsilon.
C3_BudgetExhausted ==
    /\ pc = "done"
    /\ it = max_it
    /\ max_it > 1
    /\ epsilon = Zero
    /\ FiniteMatrix(centroids)
    /\ centroids = previous_centroids

\* C4: after a membership update, a point lying exactly on centroid k has
\* membership 1 in cluster k and 0 in every other cluster.
C4_CoincidentPointIsCrisp ==
    (pc \in {"check", "done"} /\ it > 0) =>
        \A i \in DOMAIN X : \A k \in DOMAIN centroids :
            Coincides(i, k) =>
                /\ u[k][i] = One
                /\ \A j \in DOMAIN centroids : j # k => u[j][i] = Zero

\* The denominator sum_i U[k,i]^m of centroid k.
DTerm(k) == SumSeq([i \in DOMAIN u[k] |-> Pow(u[k][i], m)])

\* C5: after a centroid update (the program has no failure state for it), a
\* cluster whose denominator sum_i U[k,i]^m is zero keeps its previous, finite
\* centroid.
C5_ZeroDenominatorGuarded ==
    pc = "update_u" =>
        \A k \in DOMAIN centroids :
            DTerm(k) = Zero =>
                /\ centroids[k] = previous_centroids[k]
                /\ \A c \in Dims : IsFinite(centroids[k][c])

\* C6: a run with m <= 1 is rejected before any iteration, so 2 / (m - 1) is
\* never evaluated with m = 1 (which raises ZeroDivisionError).
C6_FuzzinessOneRejected == (pc # "start" /\ m <= 1) => pc # "raised"

\* Cluster k maximises the membership of point i.
IsArgMax(U, k, i) == IsFinite(U[k][i]) /\ \A j \in DOMAIN U : Leq(U[j][i], U[k][i])

\* C7: after a run, predict returns (U, V) and crisp_predict assigns every
\* point to one cluster, a cluster that maximises the point's membership;
\* stated for the runs whose random draws are all positive.
C7_CrispIsArgMax ==
    (pc = "done" /\ PositiveDraws) =>
        /\ predict = <<u, centroids>>
        /\ \A i \in DOMAIN X :
            /\ crisp_predict(X, centroids)[i] \in 1 .. K
            /\ IsArgMax(predict[1], crisp_predict(X, centroids)[i], i)

Returned == opt_pc \in {"sorted", "reported", "raised"}

LossNow == loss(u, X, centroids, m)

\* The V-update is regular: U is finite and every denominator is positive.
RegularV == FiniteMatrix(u) /\ \A k \in DOMAIN u : Less(Zero, DTerm(k))

\* The U-update is regular: V is finite and no point lies on a centroid.
RegularU ==
    /\ FiniteMatrix(centroids)
    /\ \A i \in DOMAIN X : \A k \in DOMAIN centroids : X[i] # centroids[k]

\* C10: for m > 1 and without degenerate cases, the loss does not increase
\* across _update_v and does not increase across _update_u.
C10_LossNonIncreasing ==
    [][ /\ (pc = "update_v" /\ m > 1 /\ RegularV) => Leq(LossNow', LossNow)
        /\ (pc = "update_u" /\ m > 1 /\ RegularU) => Leq(LossNow', LossNow) ]_vars

\* A run of one iteration in which both updates strictly lowered the loss.
C10_BothUpdatesLowerLoss ==
    /\ pc = "done"
    /\ it = 1
    /\ K = 2
    /\ m = 2
    /\ FiniteMatrix(u)
    /\ Less(loss(init_u(rng.u), X, centroids, m),
            loss(init_u(rng.u), X, [k \in 1 .. K |-> X[rng.idx[k]]], m))
    /\ Less(LossNow, loss(init_u(rng.u), X, centroids, m))

\* C11: right after _init_centroids (fit is at its first loop test), U and V
\* are mutually consistent: V is the weighted mean _update_v computes from the
\* initial U, or U is the membership update _update_u computes from the
\* initial V; stated for the runs whose random draws are all positive.
C11_InitConsistent ==
    (pc = "check" /\ it = 0 /\ PositiveDraws) =>
        \/ centroids = update_v(u, X, m)
        \/ m # 1 /\ u = update_u(X, centroids, m)

\* Contents self.u may hold when _update_u starts: the initial U (the content
\* at the first update), the current U, and matrices of the same shape filled
\* with 0, with 1 and with nan.
PreviousUs ==
    {init_u(rng.u), u, Filled(K, Len(X), Zero), Filled(K, Len(X), One), Filled(K, Len(X), NaN)}

\* C13: the U that _update_u has left (fit is back at its loop test) is, for
\* every point i and cluster k, 1 / sum_j (d(x_i, v_k) / d(x_i, v_j)) ^ (2 / (m - 1))
\* with the columns renormalised, and the in-place loop gives that same U in
\* whatever order the (k, i) entries are overwritten and whatever self.u held
\* before.
C13_UpdateUFromCentroidsOnly ==
    (pc = "check" /\ it >= 1) =>
        /\ u = Normalise([k \in 1 .. K |-> [i \in DOMAIN X |->
                    Recip(SumSeq([j \in 1 .. K |->
                        RatioPow(Dist2(X[i], centroids[k]), Dist2(X[i], centroids[j]), m)]))]])
        /\ \A o \in Orders(K, Len(X)) :
                update_u_loop(init_u(rng.u), X, centroids, m, o) = u
        /\ \A prev \in PreviousUs :
                update_u_loop(prev, X, centroids, m, LoopOrder(K, Len(X))) = u

\* A membership update on two clusters has acted: it replaced a different
\* initial U by a finite U that is not uniform, and the loop run over the
\* entries in the reverse order from a nan-filled matrix gives the same U.
C13_UpdateReplacedU ==
    /\ pc = "check"
    /\ it = 1
    /\ K = 2
    /\ FiniteMatrix(u)
    /\ u # init_u(rng.u)
    /\ u[1][1] # u[2][1]
    /\ u = update_u_loop(Filled(K, Len(X), NaN), X, centroids, m,
                         <<<<2, 2>>, <<2, 1>>, <<1, 2>>, <<1, 1>>>>)

\* The stores the callbacks made into slot f of fold_results.
WritesTo(f) == {w \in DOMAIN writes : writes[w].slot = f}

\* The pool has been joined.
AfterJoin == sweep_pc \in {"joined", "assembled", "recorded", "raised"}

\* C12: in the parallel sweep, once the pool is joined each fold index's slot
\* has been written exactly once, by the callback of that fold's own task, and
\* the list assembled afterwards holds the folds' results in the order of the
\* fold indices, whatever the order in which the tasks ended.
C12_EachSlotWrittenOnce ==
    (par /\ AfterJoin) =>
        /\ \A f \in FoldIndices :
            /\ Cardinality(WritesTo(f)) = 1
            /\ \A w \in WritesTo(f) : writes[w].job = f
        /\ sweep_pc \in {"assembled", "recorded"} =>
            fold_results = [i \in DOMAIN folds |-> FoldRun(algorithm, folds[i], i - 1).item1]

\* C16: the 'results' value run_kIBL records for an experiment is, in parallel
\* and in sequential mode alike, the list with one entry per fold, in fold
\* order, each entry being that fold's {'accuracy', 'time'} record.
C16_SameResultsInBothModes ==
    (algorithm = "kIBL" /\ sweep_pc = "recorded") =>
        kibl_results.results =
            [i \in DOMAIN folds |-> [accuracy |-> folds[i].accuracy, time |-> folds[i].time]]

\* C17: in parallel mode, once pool.close() and pool.join() have returned,
\* fold_results has an entry for every fold index, so that building the list
\* never raises, also when the run of a fold raised.
C17_EveryFoldHasEntry ==
    par =>
        /\ AfterJoin => \A f \in FoldIndices : Cardinality(WritesTo(f)) >= 1
        /\ sweep_pc = "joined" => \A f \in FoldIndices : f \in DOMAIN fold_results
        /\ sweep_pc # "raised"

\* C14: for test = 'wilcoxon', eval_stat_test sets select_mat[i][j] as its
\* comments say: with p_value < alpha and statistic > 0 the entry is 1 when
\* model i's mean accuracy is the greater, 2 when it is the smaller and 0 when
\* the two are equal; in every other case the entry is 0.
C14_WilcoxonSelectsByMean ==
    (stat_pc = "evaluated" /\ test = "wilcoxon") =>
        \A i, j \in DOMAIN mat :
            select_mat[i][j] =
                IF Less(mat[i][j][2], alpha) /\ Less(Zero, mat[i][j][1])
                THEN IF Less(Mean(Sample(kibl_json[j], "accuracy")),
                             Mean(Sample(kibl_json[i], "accuracy"))) THEN 1
                     ELSE IF Less(Mean(Sample(kibl_json[i], "accuracy")),
                                  Mean(Sample(kibl_json[j], "accuracy"))) THEN 2
                     ELSE 0
                ELSE 0

\* The test computed on each kind of per-fold sample of two models, as
\* (statistic, p-value).
PairOf(r) == <<r.stat, r.p>>

TestOn(model1, model2) ==
    [field \in {"accuracy", "time"} |->
        Strict1(PairOf, compute_stat_test(Sample(model1, field), Sample(model2, field)))]

\* C15: for every pair of different models (i, j), stats_time[i, j] is the
\* statistic and the p-value of the test on the two models' time samples and
\* stats_accuracy[i, j] those of the test on their accuracy samples.
C15_StatsFromOwnSamples ==
    stat_pc \in {"computed", "selected"} =>
        \A i, j \in DOMAIN kibl_json :
            i # j =>
                \E own \in {TestOn(kibl_json[i], kibl_json[j])} :
                    /\ stats_time[i][j] = own["time"]
                    /\ stats_accuracy[i][j] = own["accuracy"]
====
